---- MODULE Spec2Model ----
(***************************************************************************)
(* A model of asmjit's operand core (src/src/asmjit/core/operand.h):       *)
(* Operand_, Operand, Label, BaseReg, BaseMem and Imm as 16-byte values    *)
(* made of four 32-bit words, and the operations that read and write them. *)
(*                                                                         *)
(* Machine words.  TLC's integers are 32-bit signed, so a uint32_t or a    *)
(* uint64_t cannot be held as a TLC number.  A word is therefore modelled  *)
(* as the set of the positions of its 1 bits: a uint32_t is a subset of    *)
(* 0..31, a uint64_t/int64_t a subset of 0..63.  Bitwise and/or/not are    *)
(* intersection/union/complement, shifts move the positions, and addition  *)
(* is a ripple-carry adder truncated at the word's width, which is         *)
(* addition modulo 2^32 or 2^64.                                           *)
(***************************************************************************)
EXTENDS Integers, FiniteSets, Sequences, TLC

VARIABLES
    op,      \* the operand: [signature, baseId, data0, data1], four uint32_t
    cls,     \* the C++ class the operand was declared as
    prev,    \* the operand as it was before the last operation
    last,    \* the last operation: [opn |-> its name, args |-> its arguments]
    regOnly, \* the RegOnly: [signature, id], or NoRegOnly before it is initialised
    prevRegOnly, \* the RegOnly as it was before the last operation
    steps,   \* how many operations have run
    status   \* "running", or "aborted" once an assertion or a trap ended the run

vars == <<op, cls, prev, last, regOnly, prevRegOnly, steps, status>>

(***************************************************************************)
(* Bounds of the model.                                                    *)
(***************************************************************************)
MaxSteps == 2

(***************************************************************************)
(* Machine words as bit sets.                                              *)
(***************************************************************************)
Bit32 == 0..31
Bit64 == 0..63

\* The word of a number n < 2^16.
Bits(n) == {i \in 0..15 : (n \div (2^i)) % 2 = 1}

Min(S) == CHOOSE x \in S : \A y \in S : x <= y

\* The uint32_t whose high half is the number hi16 and low half the number lo16.
W(hi16, lo16) == Bits(lo16) \cup {i + 16 : i \in Bits(hi16)}
\* The 64-bit value whose high word is hi and low word lo.
Q(hi, lo) == lo \cup {i + 32 : i \in hi}

And(a, b) == a \cap b
Or(a, b) == a \cup b
Not32(a) == Bit32 \ a
Shl32(a, n) == {i + n : i \in a} \cap Bit32
Shl64(a, n) == {i + n : i \in a} \cap Bit64
Shr(a, n) == {i - n : i \in {j \in a : j >= n}}
Low32(q) == q \cap Bit32
Hi32(q) == Shr(q, 32)

\* Unsigned a < b: the highest bit in which they differ is b's.
Lt(a, b) == \E i \in b \ a : \A j \in a \ b : j < i

\* a + b + carry over the bits i..w-1, truncated at w bits.
RECURSIVE AddBits(_, _, _, _, _)
AddBits(a, b, i, c, w) ==
    IF i = w THEN {}
    ELSE LET x == i \in a
             y == i \in b
         IN  (IF (x # y) # c THEN {i} ELSE {})
               \cup AddBits(a, b, i + 1, (x /\ y) \/ (c /\ (x \/ y)), w)

Add32(a, b) == AddBits(a, b, 0, FALSE, 32)
Add64(a, b) == AddBits(a, b, 0, FALSE, 64)
\* a - b as uint32_t: modulo 2^32.
Sub32(a, b) == Add32(a, Add32(Not32(b), Bits(1)))

\* int64_t(v) of an n-bit signed v: v sign-extended to 64 bits.
SignExtend(v, n) == IF (n - 1) \in v THEN v \cup (n..63) ELSE v
\* int64_t(int32_t(w)): the 32-bit word w sign-extended to 64 bits.
SignExtend32(w) == IF 31 \in w THEN w \cup (32..63) ELSE w

\* a + b as int64_t overflows: equal signs, and the sum's sign differs.
SignedAddOverflows64(a, b) ==
    ((63 \in a) = (63 \in b)) /\ ((63 \in Add64(a, b)) # (63 \in a))

(***************************************************************************)
(* Support:: helpers used by operand.h.                                    *)
(***************************************************************************)
\* Support::constCtz(mask): the count of trailing zero bits of a nonzero mask.
constCtz(mask) == Min(mask)
\* Support::bitMaskFromBool<uint32_t>(b): all ones if b, else zero.
bitMaskFromBool(b) == IF b THEN Bit32 ELSE {}
\* Support::isBetween<uint32_t>(x, a, b): a <= x <= b.
isBetween(x, a, b) == ~Lt(x, a) /\ ~Lt(b, x)
\* Support::isInt8/isInt16/isInt32(int64_t v): v is the sign extension of its
\* low n bits.  Support::isUInt8/isUInt16/isUInt32(int64_t v): v has no bit
\* above its low n bits.
isIntN(v, n) == ((n - 1)..63) \subseteq v \/ ((n - 1)..63) \cap v = {}
isUIntN(v, n) == v \subseteq 0..(n - 1)

(***************************************************************************)
(* Operand_::OpType and the signature layout.                              *)
(***************************************************************************)
kOpNone == 0
kOpReg == 1
kOpMem == 2
kOpImm == 3
kOpLabel == 4

kSignatureOpShift == 0
kSignatureOpMask == Shl32(Bits(7), kSignatureOpShift)
kSignatureRegTypeShift == 3
kSignatureRegTypeMask == Shl32(Bits(31), kSignatureRegTypeShift)
kSignatureRegGroupShift == 8
kSignatureRegGroupMask == Shl32(Bits(15), kSignatureRegGroupShift)
kSignatureMemBaseTypeShift == 3
kSignatureMemBaseTypeMask == Shl32(Bits(31), kSignatureMemBaseTypeShift)
kSignatureMemIndexTypeShift == 8
kSignatureMemIndexTypeMask == Shl32(Bits(31), kSignatureMemIndexTypeShift)
kSignatureMemBaseIndexShift == 3
kSignatureMemBaseIndexMask == Shl32(Bits(1023), kSignatureMemBaseIndexShift)
kSignatureMemAddrTypeShift == 13
kSignatureMemAddrTypeMask == Shl32(Bits(3), kSignatureMemAddrTypeShift)
kSignatureMemRegHomeShift == 15
kSignatureMemRegHomeFlag == Shl32(Bits(1), kSignatureMemRegHomeShift)
kSignatureSizeShift == 24
kSignatureSizeMask == Shl32(Bits(255), kSignatureSizeShift)

\* Globals::kInvalidId, the invalid-id sentinel.
kInvalidId == Bit32
\* Label::kLabelTag and BaseReg::kIdBad.
kLabelTag == 1
kIdBad == 255
kAddrTypeDefault == 0
kAddrTypeAbs == 1
kAddrTypeRel == 2
kSignatureMemAbs == Shl32(Bits(kAddrTypeAbs), kSignatureMemAddrTypeShift)
kSignatureMemRel == Shl32(Bits(kAddrTypeRel), kSignatureMemAddrTypeShift)
\* BaseReg::RegType and BaseReg::RegGroup values used as inputs.
kTypeGp8Lo == 2
kTypeGp32 == 5
kTypeMax == 31
kGroupGp == 0
kGroupVec == 1

\* Operand_::VirtIdConstants and the static id conversions.
kVirtIdMin == 256
kVirtIdMax == Sub32(kInvalidId, Bits(1))
kVirtIdCount == Add32(Sub32(kVirtIdMax, Bits(kVirtIdMin)), Bits(1))
\* Mutant of isVirtId: only the lower end is tested.
isVirtId_NoUpperEnd(i) == ~Lt(i, Bits(kVirtIdMin))
isVirtId(i) == Lt(Sub32(i, Bits(kVirtIdMin)), kVirtIdCount)
indexToVirtId(i) == Add32(i, Bits(kVirtIdMin))
virtIdToIndex(i) == Sub32(i, Bits(kVirtIdMin))

(***************************************************************************)
(* Operand_ and Operand.                                                   *)
(***************************************************************************)
\* Operand(Globals::Init, u0, u1, u2, u3): the four raw words.
OperandInit(u0, u1, u2, u3) ==
    [signature |-> u0, baseId |-> u1, data0 |-> u2, data1 |-> u3]

\* Operand(): kOpNone, every word zero.
OperandDefault == OperandInit(Bits(kOpNone), {}, {}, {})

\* The _data64 view of the payload union: _data32[0] is its low word.
data64(o) == Q(o.data1, o.data0)

\* Mutant of reset: only the signature is cleared.
reset_SignatureOnly(o) == [o EXCEPT !.signature = {}]

\* Operand_::reset().
reset(o) == [o EXCEPT !.signature = {}, !.baseId = {}, !.data0 = {}, !.data1 = {}]

signature(o) == o.signature
setSignature(o, s) == [o EXCEPT !.signature = s]

hasSignaturePart(o, mask) == And(o.signature, mask) # {}
getSignaturePart(o, mask) ==
    And(Shr(o.signature, constCtz(mask)), Shr(mask, constCtz(mask)))
\* The ASMJIT_ASSERT of _setSignaturePart: value has no bit outside the field.
setSignaturePartAssert(mask, value) ==
    And(value, Not32(Shr(mask, constCtz(mask)))) = {}
\* Mutant of _setSignaturePart: the field is not cleared before the value is or-ed in.
setSignaturePart_NoClear(o, mask, value) ==
    [o EXCEPT !.signature = Or(@, Shl32(value, constCtz(mask)))]
setSignaturePart(o, mask, value) ==
    [o EXCEPT !.signature =
        Or(And(@, Not32(mask)), Shl32(value, constCtz(mask)))]

opType(o) == getSignaturePart(o, kSignatureOpMask)
\* Mutant of isNone: only the kind field is compared.
isNone_KindOnly(o) == getSignaturePart(o, kSignatureOpMask) = Bits(kOpNone)
isNone(o) == o.signature = {}
isReg(o) == opType(o) = Bits(kOpReg)
isMem(o) == opType(o) = Bits(kOpMem)
isImm(o) == opType(o) = Bits(kOpImm)
isLabel(o) == opType(o) = Bits(kOpLabel)

\* Operand_::isPhysReg() and isVirtReg(): the id against the literal 0xFF.
isPhysReg(o) == isReg(o) /\ Lt(o.baseId, Bits(255))
\* Mutant of isVirtReg: the comparison takes 0xFF in.
isVirtReg_From255(o) == isReg(o) /\ ~Lt(o.baseId, Bits(255))
isVirtReg(o) == isReg(o) /\ Lt(Bits(255), o.baseId)

hasSize(o) == hasSignaturePart(o, kSignatureSizeMask)
size(o) == getSignaturePart(o, kSignatureSizeMask)
id(o) == o.baseId

isEqual(o, other) ==
    /\ o.signature = other.signature
    /\ o.baseId = other.baseId
    /\ data64(o) = data64(other)

\* Mutant of isRegOrMem: the upper end of the range is left out.
isRegOrMem_Exclusive(o) ==
    isBetween(getSignaturePart(o, kSignatureOpMask), Bits(kOpReg), Bits(kOpReg))
isRegOrMem(o) == isBetween(opType(o), Bits(kOpReg), Bits(kOpMem))

(***************************************************************************)
(* Label.                                                                  *)
(***************************************************************************)
\* Label(): kind label, no id yet.
LabelDefault == OperandInit(Bits(kOpLabel), kInvalidId, {}, {})
\* Label(id).
LabelOf(i) == OperandInit(Bits(kOpLabel), i, {}, {})
\* Label::reset().
Label_reset(o) ==
    [o EXCEPT !.signature = Bits(kOpLabel), !.baseId = kInvalidId,
              !.data0 = {}, !.data1 = {}]
\* Mutant of Label::isValid: the id is compared with 0.
Label_isValid_NonZero(o) == o.baseId # {}
Label_isValid(o) == o.baseId # kInvalidId
Label_setId(o, i) == [o EXCEPT !.baseId = i]

(***************************************************************************)
(* BaseReg.                                                                *)
(***************************************************************************)
\* BaseReg(): a dummy register, kSignature = kOpReg and id kIdBad.
BaseRegDefault == OperandInit(Bits(kOpReg), Bits(kIdBad), {}, {})
\* BaseReg(signature, rId).
BaseRegOf(s, rId) == OperandInit(s, rId, {}, {})
\* Mutant of isSame: the signatures are not compared.
isSame_IdOnly(o, other) == o.baseId = other.baseId
\* isSame(const BaseReg& other): the first 8 bytes only.
isSame(o, other) == (o.signature = other.signature) /\ (o.baseId = other.baseId)
BaseReg_isValid(o) == (o.signature # {}) /\ (o.baseId # Bits(kIdBad))
BaseReg_isPhysReg(o) == Lt(o.baseId, Bits(kIdBad))
BaseReg_isVirtReg(o) == Lt(Bits(kIdBad), o.baseId)
BaseReg_type(o) == getSignaturePart(o, kSignatureRegTypeMask)
BaseReg_group(o) == getSignaturePart(o, kSignatureRegGroupMask)
BaseReg_setId(o, rId) == [o EXCEPT !.baseId = rId]
\* Mutant of cloneAs(other): the signature of the register itself is kept.
cloneAs_OwnSignature(o, other) == BaseRegOf(signature(o), id(o))
\* cloneAs<RegT>(), with RegT::kSignature given, and cloneAs(const RegT& other).
cloneAsT(o, kSignature) == BaseRegOf(kSignature, id(o))
cloneAs(o, other) == BaseRegOf(signature(other), id(o))
\* Mutant of the static isVec(op): only the group field is compared.
BaseReg_isVec_GroupOnly(o) ==
    And(signature(o), kSignatureRegGroupMask)
        = Shl32(Bits(kGroupVec), kSignatureRegGroupShift)
\* The static isGp(const Operand_& op) and isVec(const Operand_& op).
BaseReg_isGp(o) ==
    LET kSgn == Or(Shl32(Bits(kOpReg), kSignatureOpShift),
                   Shl32(Bits(kGroupGp), kSignatureRegGroupShift))
    IN  And(signature(o), Or(kSignatureOpMask, kSignatureRegGroupMask)) = kSgn
BaseReg_isVec(o) ==
    LET kSgn == Or(Shl32(Bits(kOpReg), kSignatureOpShift),
                   Shl32(Bits(kGroupVec), kSignatureRegGroupShift))
    IN  And(signature(o), Or(kSignatureOpMask, kSignatureRegGroupMask)) = kSgn

(***************************************************************************)
(* Imm.                                                                    *)
(***************************************************************************)
\* Imm(): the immediate 0.
ImmDefault == OperandInit(Bits(kOpImm), {}, {}, {})
\* Imm(int64_t val): the low word in _data32[0], the high word in _data32[1].
ImmOf(val) == OperandInit(Bits(kOpImm), {}, Low32(val), Hi32(val))
\* Mutant of imm(T val): the value is converted as if T were signed.
imm_AlwaysSigned(val, isSigned, n) == ImmOf(SignExtend(val, n))
\* imm(T val) of an n-bit integer type T, signed or not: val is converted to
\* int64_t, directly if T is signed and through uint64_t if it is not.
imm(val, isSigned, n) == ImmOf(IF isSigned THEN SignExtend(val, n) ELSE val)
\* i64(): the payload.
Imm_i64(o) == data64(o)
\* The payload becomes the 64-bit value v.
Imm_setData64(o, v) == [o EXCEPT !.data0 = Low32(v), !.data1 = Hi32(v)]
Imm_setI8(o, val) == Imm_setData64(o, SignExtend(val, 8))
Imm_setU8(o, val) == Imm_setData64(o, val)
Imm_setI16(o, val) == Imm_setData64(o, SignExtend(val, 16))
Imm_setU16(o, val) == Imm_setData64(o, val)
Imm_setI32(o, val) == Imm_setData64(o, SignExtend(val, 32))
Imm_setU32(o, val) == Imm_setData64(o, val)
\* i8(), i16() and i32(): the low 8, 16, 32 bits of the payload, as the bit
\* pattern of the int8_t, int16_t, int32_t returned.
Imm_i8(o) == And(data64(o), Bits(255))
Imm_i16(o) == And(data64(o), Bits(65535))
Imm_i32(o) == And(data64(o), Bit32)
\* Mutant of signExtend16Bits: the low 16 bits are zero-extended.
Imm_signExtend16Bits_Zero(o) == Imm_setData64(o, Imm_i16(o))
\* signExtend8Bits() .. zeroExtend32Bits().
Imm_signExtend8Bits(o) == Imm_setData64(o, SignExtend(Imm_i8(o), 8))
Imm_signExtend16Bits(o) == Imm_setData64(o, SignExtend(Imm_i16(o), 16))
Imm_signExtend32Bits(o) == Imm_setData64(o, SignExtend(Imm_i32(o), 32))
Imm_zeroExtend8Bits(o) == Imm_setData64(o, And(data64(o), Bits(255)))
Imm_zeroExtend16Bits(o) == Imm_setData64(o, And(data64(o), Bits(65535)))
Imm_zeroExtend32Bits(o) == Imm_setData64(o, And(data64(o), Bit32))
\* Mutant of isInt8: only the low payload word is looked at.
Imm_isInt8_LowWord(o) == isIntN(SignExtend32(o.data0), 8)
\* isInt8() .. isUInt32(): the payload read as an int64_t.
Imm_isInt8(o) == isIntN(data64(o), 8)
Imm_isUInt8(o) == isUIntN(data64(o), 8)
Imm_isInt16(o) == isIntN(data64(o), 16)
Imm_isUInt16(o) == isUIntN(data64(o), 16)
Imm_isInt32(o) == isIntN(data64(o), 32)
Imm_isUInt32(o) == isUIntN(data64(o), 32)

(***************************************************************************)
(* RegOnly: the 8-byte form of a register, a plain struct of two words.    *)
(***************************************************************************)
\* A RegOnly that was declared and not yet initialised.
NoRegOnly == [uninitialized |-> TRUE]
\* init(signature, id).
RegOnly_init(s, i) == [signature |-> s, id |-> i]
\* Mutant of init(const BaseReg&): the two arguments are swapped.
RegOnly_initReg_Swapped(reg) == RegOnly_init(id(reg), signature(reg))
\* init(const BaseReg& reg).
RegOnly_initReg(reg) == RegOnly_init(signature(reg), id(reg))
RegOnly_reset == RegOnly_init({}, {})
RegOnly_setId(r, i) == [r EXCEPT !.id = i]
\* Mutant of RegOnly::isVirtReg: the id is tested with isVirtId.
RegOnly_isVirtReg_ById(r) == isVirtId(r.id)
\* RegOnly::isPhysReg() and isVirtReg().
RegOnly_isPhysReg(r) == Lt(r.id, Bits(kIdBad))
RegOnly_isVirtReg(r) == Lt(Bits(kIdBad), r.id)
\* toReg<BaseReg>().
RegOnly_toReg(r) == BaseRegOf(r.signature, r.id)

(***************************************************************************)
(* BaseMem.                                                                *)
(***************************************************************************)
\* BaseMem(): points to [0].
BaseMemDefault == OperandInit(Bits(kOpMem), {}, {}, {})

\* Mutant of BaseMem(Decomposed): the two payload words are swapped.
BaseMemOf_SwappedPayload(d) ==
    [signature |->
        Or(Or(Or(Or(Bits(kOpMem),
                    Shl32(d.baseType, kSignatureMemBaseTypeShift)),
                 Shl32(d.indexType, kSignatureMemIndexTypeShift)),
              Shl32(d.size, kSignatureSizeShift)),
           d.flags),
     baseId |-> d.baseId, data0 |-> d.offset, data1 |-> d.indexId]

\* BaseMem(const Decomposed& d); d.offset is an int32_t, stored as uint32_t.
BaseMemOf(d) ==
    OperandInit(
        Or(Or(Or(Or(Bits(kOpMem),
                    Shl32(d.baseType, kSignatureMemBaseTypeShift)),
                 Shl32(d.indexType, kSignatureMemIndexTypeShift)),
              Shl32(d.size, kSignatureSizeShift)),
           d.flags),
        d.baseId,
        d.indexId,
        d.offset)

\* Mutant of BaseMem::reset: it does what Operand_::reset() does.
BaseMem_reset_AsOperand(o) == reset(o)
\* BaseMem::reset().
BaseMem_reset(o) ==
    [o EXCEPT !.signature = Bits(kOpMem), !.baseId = {},
              !.data0 = {}, !.data1 = {}]

addrType(o) == getSignaturePart(o, kSignatureMemAddrTypeMask)
setAddrType(o, t) == setSignaturePart(o, kSignatureMemAddrTypeMask, t)
resetAddrType(o) == setSignaturePart(o, kSignatureMemAddrTypeMask, {})
isAbs(o) == addrType(o) = Bits(kAddrTypeAbs)
setAbs(o) == setAddrType(o, Bits(kAddrTypeAbs))
isRel(o) == addrType(o) = Bits(kAddrTypeRel)
setRel(o) == setAddrType(o, Bits(kAddrTypeRel))

isRegHome(o) == hasSignaturePart(o, kSignatureMemRegHomeFlag)
setRegHome(o) == [o EXCEPT !.signature = Or(@, kSignatureMemRegHomeFlag)]
clearRegHome(o) ==
    [o EXCEPT !.signature = And(@, Not32(kSignatureMemRegHomeFlag))]

hasBase(o) == And(o.signature, kSignatureMemBaseTypeMask) # {}
hasIndex(o) == And(o.signature, kSignatureMemIndexTypeMask) # {}
hasBaseOrIndex(o) == And(o.signature, kSignatureMemBaseIndexMask) # {}
hasBaseAndIndex(o) ==
    /\ And(o.signature, kSignatureMemBaseTypeMask) # {}
    /\ And(o.signature, kSignatureMemIndexTypeMask) # {}
\* Mutant of hasBaseReg: the comparison takes the label tag in.
hasBaseReg_FromLabelTag(o) ==
    ~Lt(And(o.signature, kSignatureMemBaseTypeMask),
        Shl32(Bits(kLabelTag), kSignatureMemBaseTypeShift))
hasBaseReg(o) ==
    Lt(Shl32(Bits(kLabelTag), kSignatureMemBaseTypeShift),
       And(o.signature, kSignatureMemBaseTypeMask))
hasBaseLabel(o) ==
    And(o.signature, kSignatureMemBaseTypeMask)
        = Shl32(Bits(kLabelTag), kSignatureMemBaseTypeShift)
hasIndexReg(o) ==
    Lt(Shl32(Bits(kLabelTag), kSignatureMemIndexTypeShift),
       And(o.signature, kSignatureMemIndexTypeMask))

baseType(o) == getSignaturePart(o, kSignatureMemBaseTypeMask)
indexType(o) == getSignaturePart(o, kSignatureMemIndexTypeMask)
baseAndIndexTypes(o) == getSignaturePart(o, kSignatureMemBaseIndexMask)
baseId(o) == o.baseId
indexId(o) == o.data0

setBaseId(o, rId) == [o EXCEPT !.baseId = rId]
\* Mutant of setIndexId: the id goes into the other payload word.
setIndexId_OtherWord(o, rId) == [o EXCEPT !.data1 = rId]
setIndexId(o, rId) == [o EXCEPT !.data0 = rId]

\* _setBase(rType, rId) and _setIndex(rType, rId).
setBaseTI(o, rType, rId) ==
    [setSignaturePart(o, kSignatureMemBaseTypeMask, rType) EXCEPT !.baseId = rId]
setIndexTI(o, rType, rId) ==
    [setSignaturePart(o, kSignatureMemIndexTypeMask, rType) EXCEPT !.data0 = rId]
\* setBase(const BaseReg&) and setIndex(const BaseReg&).
setBase(o, base) == setBaseTI(o, BaseReg_type(base), id(base))
setIndex(o, index) == setIndexTI(o, BaseReg_type(index), id(index))
\* Mutant of resetBase: the base type is cleared and the base id is kept.
resetBase_TypeOnly(o) == setSignaturePart(o, kSignatureMemBaseTypeMask, {})
resetBase(o) == setBaseTI(o, {}, {})
resetIndex(o) == setIndexTI(o, {}, {})

setSize(o, s) == setSignaturePart(o, kSignatureSizeMask, s)

isOffset64Bit(o) == baseType(o) = {}

\* Mutant of hasOffset: the base id counts in either mode.
hasOffset_AnyWord(o) == Or(o.data1, o.baseId) # {}
hasOffset(o) ==
    Or(o.data1, And(o.baseId, bitMaskFromBool(isOffset64Bit(o)))) # {}

\* Mutants of offset: the mode is ignored, one way or the other.
offset_Always64(o) == Or(o.data1, Shl64(o.baseId, 32))
offset_SignExtendLo32(o) == SignExtend32(o.data1)

\* offset(): an int64_t, as its 64-bit pattern.
offset(o) ==
    IF isOffset64Bit(o)
    THEN Or(o.data1, Shl64(o.baseId, 32))
    ELSE SignExtend32(o.data1)

\* offsetLo32() and offsetHi32(): int32_t, as their 32-bit patterns.
offsetLo32(o) == o.data1
offsetHi32(o) == o.baseId

\* Mutant of setOffset: the high word is written in either mode.
setOffset_NoMask(o, off) ==
    [o EXCEPT !.data1 = And(off, Bit32), !.baseId = Shr(off, 32)]
setOffset(o, off) ==
    LET lo == And(off, Bit32)
        hi == Shr(off, 32)
        hiMsk == bitMaskFromBool(isOffset64Bit(o))
    IN  [o EXCEPT !.data1 = lo,
                  !.baseId = Or(And(hi, hiMsk), And(@, Not32(hiMsk)))]
setOffsetLo32(o, off) == [o EXCEPT !.data1 = off]

\* addOffset(int64_t offset).  In 64-bit mode the sum is an int64_t addition,
\* whose overflow is undefined; addOffset is the result where the addition
\* wraps, addOffsetOverflows says when the addition overflows.
addOffsetOverflows(o, off) ==
    isOffset64Bit(o) /\ SignedAddOverflows64(off, Or(o.data1, Shl64(o.baseId, 32)))
\* Mutant of addOffset: the 64-bit addition is done in either mode.
addOffset_Always64(o, off) ==
    LET result == Add64(off, Or(o.data1, Shl64(o.baseId, 32)))
    IN  [o EXCEPT !.data1 = And(result, Bit32), !.baseId = Shr(result, 32)]
addOffset(o, off) ==
    IF isOffset64Bit(o)
    THEN LET result == Add64(off, Or(o.data1, Shl64(o.baseId, 32)))
         IN  [o EXCEPT !.data1 = And(result, Bit32),
                       !.baseId = Shr(result, 32)]
    ELSE [o EXCEPT !.data1 = Add32(@, And(off, Bit32))]
\* Mutant of addOffsetLo32: with no base the carry goes into the high word.
addOffsetLo32_Carry(o, off) ==
    IF isOffset64Bit(o)
    THEN LET result == Add64(off, Or(o.data1, Shl64(o.baseId, 32)))
         IN  [o EXCEPT !.data1 = And(result, Bit32), !.baseId = Shr(result, 32)]
    ELSE [o EXCEPT !.data1 = Add32(@, off)]
addOffsetLo32(o, off) == [o EXCEPT !.data1 = Add32(@, off)]

\* Mutant of resetOffset: only the low word is cleared.
resetOffset_LowOnly(o) == setOffsetLo32(o, {})
resetOffset(o) == setOffset(o, {})
resetOffsetLo32(o) == setOffsetLo32(o, {})

(***************************************************************************)
(* Inputs: the boundary values the operations are called with.             *)
(***************************************************************************)
W0 == {}
W1 == Bits(1)
WIntMax == W(32767, 65535)
WIntMin == W(32768, 0)
WAllOnes == Bit32

\* Fields of BaseMem::Decomposed.
DecBaseTypes == {Bits(0), Bits(kLabelTag), Bits(kTypeGp8Lo), Bits(kTypeMax)}
DecBaseIds == {W0, WAllOnes}
DecIndexTypes == {Bits(0), Bits(kTypeMax)}
DecIndexIds == {W(65535, 65534)}
DecOffsets == {W0, WIntMax, WIntMin, WAllOnes}
DecSizes == {Bits(0), Bits(255)}
DecFlags == {{}, Or(kSignatureMemRel, kSignatureMemRegHomeFlag)}
Decomposed ==
    [baseType : DecBaseTypes, baseId : DecBaseIds, indexType : DecIndexTypes,
     indexId : DecIndexIds, offset : DecOffsets, size : DecSizes, flags : DecFlags]

\* Raw words of Operand(Globals::Init, u0, u1, u2, u3) and setSignature(u0).
RawSignatures ==
    {Bits(n) : n \in {0, 1, 2, 3, 4, 5, 6, 7, 8, 257, 513}} \cup {W(65280, 57594), WAllOnes}
RawIds == {W0, Bits(kIdBad), WAllOnes}
RawData == {W0, WAllOnes}

\* Register signatures and ids.
RegSignatures ==
    {Bits(kOpReg),
     Or(Or(Bits(kOpReg), Shl32(Bits(kTypeGp32), kSignatureRegTypeShift)),
        Shl32(Bits(4), kSignatureSizeShift)),
     Or(Or(Bits(kOpReg), Shl32(Bits(kTypeMax), kSignatureRegTypeShift)),
        Shl32(Bits(kGroupVec), kSignatureRegGroupShift))}
RegIds == {W0, Bits(254), Bits(kIdBad), Bits(256), W(65535, 65534), kInvalidId}
LabelIds == {W0, W1, kInvalidId}

\* Integer types of imm(T val) and of the set* mutators: their widths, and the
\* values of an n-bit type given as bit patterns: 0, 1, the pattern with only
\* the top bit (the least signed value), that without it (the greatest signed
\* value) and all ones (-1, or the greatest unsigned value).
ImmWidths == {8, 16, 32, 64}
ImmPatterns(n) == {{}, {0}, {n - 1}, 0..(n - 2), 0..(n - 1)}
ImmSetPatterns(n) == {{n - 1}, 0..(n - 2)}
\* int64_t arguments: 1, -1, 0x0000000180000000 and INT64_MAX.
Offsets64 == {Q(W0, W1), Bit64, Q(W1, WIntMin), Q(WIntMax, WAllOnes)}
\* int32_t arguments of the Lo32 operations.
Offsets32 == {W1, WAllOnes}
\* int64_t values of immediates: 0, -1, INT64_MIN, INT64_MAX and the two
\* values at each end of the 8-, 16- and 32-bit signed and unsigned ranges.
ImmValues ==
    {{}, Bit64, {63}, 0..62}
        \cup {Bit64 \ {7}, Bit64 \ (0..6), 0..6, {7}, 0..7, {8}}
        \cup {Bit64 \ {15}, Bit64 \ (0..14), 0..14, {15}, 0..15, {16}}
        \cup {Bit64 \ {31}, Bit64 \ (0..30), 0..30, {31}, 0..31, {32}}

\* Arguments of the signature setters; the last of each is wider than the field.
SizeArgs == {Bits(1), Bits(255), Bits(256)}
AddrTypeArgs == {Bits(3), Bits(4)}
\* <<rType, rId>> of _setBase and _setIndex.
TypeIdArgs == {<<Bits(kLabelTag), W1>>, <<Bits(kTypeMax), WAllOnes>>, <<Bits(32), W0>>}
\* Registers given to setBase and setIndex.
RegArgs ==
    {BaseRegOf(Or(Bits(kOpReg), Shl32(Bits(kTypeGp32), kSignatureRegTypeShift)), Bits(256)),
     BaseRegOf(Or(Or(Bits(kOpReg), Shl32(Bits(kTypeMax), kSignatureRegTypeShift)),
                  Shl32(Bits(kGroupVec), kSignatureRegGroupShift)), W0)}
\* Ids given to setBaseId and setIndexId: a physical and a virtual one.
IdArgs == {W1, Bits(256)}
\* Signatures given to setSignature.
SigArgs == {Bits(5), Bits(8), Or(Bits(kOpMem), kSignatureSizeMask)}
\* Registers given to isSame: kOpReg with id 0 and each payload, clean or
\* garbage in either word; another signature with id 0; another id.
SameArgs ==
    {OperandInit(Bits(kOpReg), W0, u2, u3) : u2 \in RawData, u3 \in RawData}
        \cup {BaseRegOf(Bits(257), W0), BaseRegOf(Bits(kOpReg), Bits(kIdBad))}
\* Ids and allocator indexes given to the static id conversions: 0, 1, 255,
\* 256, 257, kVirtIdCount - 1, kVirtIdCount, kVirtIdMax and kInvalidId.
VirtIdArgs ==
    {W0, W1, Bits(255), Bits(256), Bits(257), W(65535, 65278), W(65535, 65279),
     W(65535, 65534), kInvalidId}

(***************************************************************************)
(* The program: one operand is constructed, then operations are called on  *)
(* it, at most MaxSteps in all.                                            *)
(***************************************************************************)
Init ==
    /\ op = OperandDefault
    /\ cls = "Operand"
    /\ prev = OperandDefault
    /\ last = [opn |-> "Operand()", args |-> <<>>]
    /\ regOnly = NoRegOnly
    /\ prevRegOnly = NoRegOnly
    /\ steps = 0
    /\ status = "running"

\* The program is running and may call one more operation.
Ready == status = "running" /\ steps < MaxSteps

\* An operation that returns: the operand becomes o.
Step(o, c, opn, args) ==
    /\ Ready
    /\ op' = o
    /\ cls' = c
    /\ prev' = op
    /\ regOnly' = regOnly
    /\ prevRegOnly' = regOnly
    /\ last' = [opn |-> opn, args |-> args]
    /\ steps' = steps + 1
    /\ status' = "running"

\* An operation that ends the program before it writes anything.
Abort(opn, args) ==
    /\ Ready
    /\ UNCHANGED <<op, cls>>
    /\ prev' = op
    /\ regOnly' = regOnly
    /\ prevRegOnly' = regOnly
    /\ last' = [opn |-> opn, args |-> args]
    /\ steps' = steps + 1
    /\ status' = "aborted"

\* A call of a static function, which reads no operand and returns ret.
StaticStep(opn, args, ret) ==
    /\ Ready
    /\ UNCHANGED <<op, cls>>
    /\ prev' = op
    /\ regOnly' = regOnly
    /\ prevRegOnly' = regOnly
    /\ last' = [opn |-> opn, args |-> args, ret |-> ret]
    /\ steps' = steps + 1
    /\ status' = "running"

\* An operation of the RegOnly that leaves it r; the operand is not touched.
RegOnlyStep(r, opn, args) ==
    /\ Ready
    /\ UNCHANGED <<op, cls>>
    /\ prev' = op
    /\ regOnly' = r
    /\ prevRegOnly' = regOnly
    /\ last' = [opn |-> opn, args |-> args]
    /\ steps' = steps + 1
    /\ status' = "running"

\* A call of _setSignaturePart<mask>(value) that yields o.  When the
\* ASMJIT_ASSERT fails, a debug build aborts and a release build goes on.
SetPartStep(o, mask, value, opn, args) ==
    IF setSignaturePartAssert(mask, value)
    THEN Step(o, cls, opn, args)
    ELSE Step(o, cls, opn, args) \/ Abort(opn, args)

(* Static functions of Operand_; they read no operand, so they go first. *)
CallIsVirtId ==
    /\ Ready
    /\ steps = 0
    /\ \E i \in VirtIdArgs : StaticStep("isVirtId", <<i>>, isVirtId(i))

CallIndexToVirtId ==
    /\ Ready
    /\ steps = 0
    /\ \E i \in VirtIdArgs : StaticStep("indexToVirtId", <<i>>, indexToVirtId(i))

CallVirtIdToIndex ==
    /\ Ready
    /\ steps = 0
    /\ \E i \in VirtIdArgs : StaticStep("virtIdToIndex", <<i>>, virtIdToIndex(i))

(* Constructors. *)
NewOperandRaw ==
    /\ Ready
    /\ steps = 0
    /\ \E u0 \in RawSignatures, u1 \in RawIds, u2 \in RawData, u3 \in RawData :
          Step(OperandInit(u0, u1, u2, u3), "Operand", "Operand(Init)", <<u0, u1, u2, u3>>)

NewLabel ==
    /\ Ready
    /\ steps = 0
    /\ Step(LabelDefault, "Label", "Label()", <<>>)

NewLabelId ==
    /\ Ready
    /\ steps = 0
    /\ \E i \in LabelIds : Step(LabelOf(i), "Label", "Label(id)", <<i>>)

NewBaseReg ==
    /\ Ready
    /\ steps = 0
    /\ Step(BaseRegDefault, "BaseReg", "BaseReg()", <<>>)

NewBaseRegOf ==
    /\ Ready
    /\ steps = 0
    /\ \E s \in RegSignatures, i \in RegIds :
          Step(BaseRegOf(s, i), "BaseReg", "BaseReg(signature, rId)", <<s, i>>)

NewImm ==
    /\ Ready
    /\ steps = 0
    /\ Step(ImmDefault, "Imm", "Imm()", <<>>)

NewImmOf ==
    /\ Ready
    /\ steps = 0
    /\ \E v \in ImmValues : Step(ImmOf(v), "Imm", "Imm(val)", <<v>>)

NewImmFrom ==
    /\ Ready
    /\ steps = 0
    /\ \E n \in ImmWidths, isSigned \in BOOLEAN :
          \E val \in ImmPatterns(n) :
              Step(imm(val, isSigned, n), "Imm", "imm(val)", <<val, isSigned, n>>)

NewBaseMem ==
    /\ Ready
    /\ steps = 0
    /\ Step(BaseMemDefault, "BaseMem", "BaseMem()", <<>>)

NewBaseMemOf ==
    /\ Ready
    /\ steps = 0
    /\ \E d \in Decomposed : Step(BaseMemOf(d), "BaseMem", "BaseMem(Decomposed)", <<d>>)

(* RegOnly: it is initialised first, from a register or by reset(). *)
NewRegOnlyOfReg ==
    /\ Ready
    /\ steps = 0
    /\ \E s \in RegSignatures, i \in RegIds :
          RegOnlyStep(RegOnly_initReg(BaseRegOf(s, i)), "RegOnly::init", <<BaseRegOf(s, i)>>)

NewRegOnlyReset ==
    /\ Ready
    /\ steps = 0
    /\ RegOnlyStep(RegOnly_reset, "RegOnly::reset", <<>>)

CallRegOnlySetId ==
    /\ Ready
    /\ regOnly # NoRegOnly
    /\ \E i \in IdArgs : RegOnlyStep(RegOnly_setId(regOnly, i), "RegOnly::setId", <<i>>)

\* toReg<BaseReg>(): the operand becomes the register made from the RegOnly.
CallRegOnlyToReg ==
    /\ Ready
    /\ regOnly # NoRegOnly
    /\ Step(RegOnly_toReg(regOnly), "BaseReg", "RegOnly::toReg", <<>>)

(* Operations of every operand. *)
\* x.reset(): Label and BaseMem declare a reset() of their own, which hides
\* Operand_::reset() for an operand declared as one of them.
CallReset ==
    /\ Ready
    /\ steps > 0
    /\ Step(CASE cls = "Label" -> Label_reset(op)
              [] cls = "BaseMem" -> BaseMem_reset(op)
              [] OTHER -> reset(op),
            cls, "reset", <<>>)

\* Operand_::reset() reached through the base class (an Operand_& or as<Operand_>()).
CallOperandReset ==
    /\ Ready
    /\ steps > 0
    /\ Step(reset(op), cls, "Operand_::reset", <<>>)

CallSetSignature ==
    /\ Ready
    /\ steps > 0
    /\ \E s \in SigArgs : Step(setSignature(op, s), cls, "setSignature", <<s>>)

(* Label and BaseReg. *)
CallLabelSetId ==
    /\ Ready
    /\ cls = "Label"
    /\ \E i \in LabelIds : Step(Label_setId(op, i), cls, "Label::setId", <<i>>)

CallRegSetId ==
    /\ Ready
    /\ cls = "BaseReg"
    /\ \E i \in RegIds : Step(BaseReg_setId(op, i), cls, "BaseReg::setId", <<i>>)

\* isSame(other) on any operand whose kind is register (a BaseReg, or an
\* Operand read as<BaseReg>()): const, ret is the answer.
CallIsSame ==
    /\ Ready
    /\ isReg(op)
    /\ \E other \in SameArgs : StaticStep("isSame", <<other>>, isSame(op, other))

\* cloneAs<RegT>() and cloneAs(other): const, the register returned is ret.
CallCloneAsT ==
    /\ Ready
    /\ cls = "BaseReg"
    /\ \E s \in RegSignatures :
          StaticStep("cloneAs<RegT>", <<s>>, cloneAsT(op, s))

CallCloneAs ==
    /\ Ready
    /\ cls = "BaseReg"
    /\ \E other \in RegArgs :
          StaticStep("cloneAs", <<other>>, cloneAs(op, other))

(* Imm: the typed mutators. *)
CallImmSetI8 ==
    /\ Ready
    /\ cls = "Imm"
    /\ \E val \in ImmSetPatterns(8) : Step(Imm_setI8(op, val), cls, "setI8", <<val>>)

CallImmSetU8 ==
    /\ Ready
    /\ cls = "Imm"
    /\ \E val \in ImmSetPatterns(8) : Step(Imm_setU8(op, val), cls, "setU8", <<val>>)

CallImmSetI16 ==
    /\ Ready
    /\ cls = "Imm"
    /\ \E val \in ImmSetPatterns(16) : Step(Imm_setI16(op, val), cls, "setI16", <<val>>)

CallImmSetU16 ==
    /\ Ready
    /\ cls = "Imm"
    /\ \E val \in ImmSetPatterns(16) : Step(Imm_setU16(op, val), cls, "setU16", <<val>>)

CallImmSetI32 ==
    /\ Ready
    /\ cls = "Imm"
    /\ \E val \in ImmSetPatterns(32) : Step(Imm_setI32(op, val), cls, "setI32", <<val>>)

CallImmSetU32 ==
    /\ Ready
    /\ cls = "Imm"
    /\ \E val \in ImmSetPatterns(32) : Step(Imm_setU32(op, val), cls, "setU32", <<val>>)

(* Imm: the extend mutators. *)
CallImmSignExtend8Bits ==
    /\ Ready
    /\ cls = "Imm"
    /\ Step(Imm_signExtend8Bits(op), cls, "signExtend8Bits", <<>>)

CallImmSignExtend16Bits ==
    /\ Ready
    /\ cls = "Imm"
    /\ Step(Imm_signExtend16Bits(op), cls, "signExtend16Bits", <<>>)

CallImmSignExtend32Bits ==
    /\ Ready
    /\ cls = "Imm"
    /\ Step(Imm_signExtend32Bits(op), cls, "signExtend32Bits", <<>>)

CallImmZeroExtend8Bits ==
    /\ Ready
    /\ cls = "Imm"
    /\ Step(Imm_zeroExtend8Bits(op), cls, "zeroExtend8Bits", <<>>)

CallImmZeroExtend16Bits ==
    /\ Ready
    /\ cls = "Imm"
    /\ Step(Imm_zeroExtend16Bits(op), cls, "zeroExtend16Bits", <<>>)

CallImmZeroExtend32Bits ==
    /\ Ready
    /\ cls = "Imm"
    /\ Step(Imm_zeroExtend32Bits(op), cls, "zeroExtend32Bits", <<>>)

(* BaseMem: the signature fields. *)
CallSetSize ==
    /\ Ready
    /\ cls = "BaseMem"
    /\ \E v \in SizeArgs :
          SetPartStep(setSize(op, v), kSignatureSizeMask, v, "setSize", <<v>>)

CallSetAddrType ==
    /\ Ready
    /\ cls = "BaseMem"
    /\ \E v \in AddrTypeArgs :
          SetPartStep(setAddrType(op, v), kSignatureMemAddrTypeMask, v, "setAddrType", <<v>>)

CallSetAbs ==
    /\ Ready
    /\ cls = "BaseMem"
    /\ Step(setAbs(op), cls, "setAbs", <<>>)

CallSetRel ==
    /\ Ready
    /\ cls = "BaseMem"
    /\ Step(setRel(op), cls, "setRel", <<>>)

CallResetAddrType ==
    /\ Ready
    /\ cls = "BaseMem"
    /\ Step(resetAddrType(op), cls, "resetAddrType", <<>>)

CallSetRegHome ==
    /\ Ready
    /\ cls = "BaseMem"
    /\ Step(setRegHome(op), cls, "setRegHome", <<>>)

CallClearRegHome ==
    /\ Ready
    /\ cls = "BaseMem"
    /\ Step(clearRegHome(op), cls, "clearRegHome", <<>>)

(* BaseMem: base and index. *)
CallSetBaseTI ==
    /\ Ready
    /\ cls = "BaseMem"
    /\ \E a \in TypeIdArgs :
          SetPartStep(setBaseTI(op, a[1], a[2]), kSignatureMemBaseTypeMask, a[1], "_setBase", a)

CallSetIndexTI ==
    /\ Ready
    /\ cls = "BaseMem"
    /\ \E a \in TypeIdArgs :
          SetPartStep(setIndexTI(op, a[1], a[2]), kSignatureMemIndexTypeMask, a[1], "_setIndex", a)

\* setBase(reg) and setIndex(reg): a register's type() is 5 bits wide.
CallSetBase ==
    /\ Ready
    /\ cls = "BaseMem"
    /\ \E r \in RegArgs : Step(setBase(op, r), cls, "setBase", <<r>>)

CallSetIndex ==
    /\ Ready
    /\ cls = "BaseMem"
    /\ \E r \in RegArgs : Step(setIndex(op, r), cls, "setIndex", <<r>>)

CallResetBase ==
    /\ Ready
    /\ cls = "BaseMem"
    /\ Step(resetBase(op), cls, "resetBase", <<>>)

CallResetIndex ==
    /\ Ready
    /\ cls = "BaseMem"
    /\ Step(resetIndex(op), cls, "resetIndex", <<>>)

CallSetBaseId ==
    /\ Ready
    /\ cls = "BaseMem"
    /\ \E i \in IdArgs : Step(setBaseId(op, i), cls, "setBaseId", <<i>>)

CallSetIndexId ==
    /\ Ready
    /\ cls = "BaseMem"
    /\ \E i \in IdArgs : Step(setIndexId(op, i), cls, "setIndexId", <<i>>)

(* BaseMem: the offset. *)
CallSetOffset ==
    /\ Ready
    /\ cls = "BaseMem"
    /\ \E k \in Offsets64 : Step(setOffset(op, k), cls, "setOffset", <<k>>)

CallSetOffsetLo32 ==
    /\ Ready
    /\ cls = "BaseMem"
    /\ \E k \in Offsets32 : Step(setOffsetLo32(op, k), cls, "setOffsetLo32", <<k>>)

\* addOffset(k) whose addition is defined: it returns the sum.
CallAddOffset ==
    /\ Ready
    /\ cls = "BaseMem"
    /\ \E k \in Offsets64 :
          /\ ~addOffsetOverflows(op, k)
          /\ Step(addOffset(op, k), cls, "addOffset", <<k>>)

\* addOffset(k) whose int64_t addition overflows, which is undefined: the
\* build wraps (plain two's complement code) ...
CallAddOffsetWrap ==
    /\ Ready
    /\ cls = "BaseMem"
    /\ \E k \in Offsets64 :
          /\ addOffsetOverflows(op, k)
          /\ Step(addOffset(op, k), cls, "addOffset", <<k>>)

\* ... or traps (-ftrapv, a trapping overflow sanitizer).
CallAddOffsetTrap ==
    /\ Ready
    /\ cls = "BaseMem"
    /\ \E k \in Offsets64 :
          /\ addOffsetOverflows(op, k)
          /\ Abort("addOffset", <<k>>)

CallAddOffsetLo32 ==
    /\ Ready
    /\ cls = "BaseMem"
    /\ \E k \in Offsets32 : Step(addOffsetLo32(op, k), cls, "addOffsetLo32", <<k>>)

CallResetOffset ==
    /\ Ready
    /\ cls = "BaseMem"
    /\ Step(resetOffset(op), cls, "resetOffset", <<>>)

CallResetOffsetLo32 ==
    /\ Ready
    /\ cls = "BaseMem"
    /\ Step(resetOffsetLo32(op), cls, "resetOffsetLo32", <<>>)

Next ==
    \/ CallIsVirtId \/ CallIndexToVirtId \/ CallVirtIdToIndex
    \/ NewOperandRaw \/ NewLabel \/ NewLabelId \/ NewBaseReg \/ NewBaseRegOf
    \/ NewImm \/ NewImmOf \/ NewBaseMem \/ NewBaseMemOf
    \/ NewRegOnlyOfReg \/ NewRegOnlyReset \/ CallRegOnlySetId \/ CallRegOnlyToReg
    \/ CallReset \/ CallOperandReset \/ CallSetSignature
    \/ CallLabelSetId \/ CallRegSetId \/ NewImmFrom
    \/ CallCloneAsT \/ CallCloneAs \/ CallIsSame
    \/ CallImmSetI8 \/ CallImmSetU8 \/ CallImmSetI16 \/ CallImmSetU16
    \/ CallImmSetI32 \/ CallImmSetU32
    \/ CallImmSignExtend8Bits \/ CallImmSignExtend16Bits \/ CallImmSignExtend32Bits
    \/ CallImmZeroExtend8Bits \/ CallImmZeroExtend16Bits \/ CallImmZeroExtend32Bits
    \/ CallSetSize \/ CallSetAddrType \/ CallSetAbs \/ CallSetRel
    \/ CallResetAddrType \/ CallSetRegHome \/ CallClearRegHome
    \/ CallSetBaseTI \/ CallSetIndexTI \/ CallSetBase \/ CallSetIndex
    \/ CallResetBase \/ CallResetIndex \/ CallSetBaseId \/ CallSetIndexId
    \/ CallSetOffset \/ CallSetOffsetLo32
    \/ CallAddOffset \/ CallAddOffsetWrap \/ CallAddOffsetTrap
    \/ CallAddOffsetLo32 \/ CallResetOffset \/ CallResetOffsetLo32

Spec == Init /\ [][Next]_vars

(***************************************************************************)
(* Properties.                                                             *)
(***************************************************************************)
\* The operand's 64-bit address or offset words, high word then low word.
Addr64(o) == Q(o.baseId, o.data1)
\* The last operation was opn and it returned.
Did(opn) == last.opn = opn /\ status = "running"

\* C1: addOffset(k) on a memory operand with a base replaces the low offset
\* word by (offsetLo32 + low32(k)) mod 2^32, the low word of the 64-bit sum of
\* the low word and k, and leaves the base id, the index id and the signature
\* as they were; the call always returns.
C1_AddOffsetBased ==
    (last.opn = "addOffset" /\ baseType(prev) # W0) =>
        /\ status = "running"
        /\ op.data1 = Low32(Add64(Q(W0, prev.data1), last.args[1]))
        /\ op.baseId = prev.baseId
        /\ op.data0 = prev.data0
        /\ op.signature = prev.signature

\* C1 witness: a label- or register-based operand with displacement -1 and
\* base id 0xFFFFFFFF took addOffset(1): the low word wrapped to 0.
C1_Witness ==
    /\ Did("addOffset")
    /\ baseType(prev) # W0
    /\ prev.data1 = WAllOnes
    /\ prev.baseId = WAllOnes
    /\ last.args[1] = Q(W0, W1)
    /\ op.data1 = W0
    /\ op.baseId = WAllOnes

\* C2: addOffset(k) on a memory operand with no base holding the absolute
\* address A leaves it holding (A + k) mod 2^64, low word in offsetLo32 and
\* high word in baseId, with the signature and the index id unchanged.
C2_AddOffsetAbsolute ==
    (last.opn = "addOffset" /\ baseType(prev) = W0) =>
        /\ Addr64(op) = Add64(Addr64(prev), last.args[1])
        /\ op.data0 = prev.data0
        /\ op.signature = prev.signature

\* C3: offset() of a memory operand with a base is the low word sign-extended
\* (bits 32..63 all equal bit 31) whatever the base id; with no base it is
\* (baseId << 32) | offsetLo32.
C3_OffsetDecode ==
    cls = "BaseMem" =>
        LET off == offset(op)
        IN  IF baseType(op) # W0
            THEN /\ Low32(off) = op.data1
                 /\ off \ Bit32 = (IF 31 \in op.data1 THEN 32..63 ELSE {})
                 /\ \A i \in RawIds : offset([op EXCEPT !.baseId = i]) = off
            ELSE /\ Low32(off) = op.data1
                 /\ Hi32(off) = op.baseId

\* C3 witness: a based operand with a negative displacement and a nonzero
\* base id; its offset() is negative.
C3_Witness ==
    /\ cls = "BaseMem"
    /\ baseType(op) # W0
    /\ op.baseId = WAllOnes
    /\ op.data1 = WIntMin
    /\ offset(op) = Q(WAllOnes, WIntMin)

\* C4: hasOffset() is true exactly when the low offset word is nonzero, or
\* the operand has no base and the high word (baseId) is nonzero.
C4_HasOffset ==
    cls = "BaseMem" =>
        (hasOffset(op) <=>
            (op.data1 # W0 \/ (baseType(op) = W0 /\ op.baseId # W0)))

\* C4 witness: a based operand with a nonzero base id and a zero low word
\* reports no offset.
C4_Witness ==
    /\ cls = "BaseMem"
    /\ baseType(op) # W0
    /\ op.baseId # W0
    /\ op.data1 = W0
    /\ ~hasOffset(op)

\* C5: the operand built by BaseMem(Decomposed) from in-range fields has kind
\* memory, and baseType(), baseId(), indexType(), indexId(), offsetLo32(),
\* size(), addrType() and isRegHome() return the values that were given.
C5_MemRoundTrip ==
    Did("BaseMem(Decomposed)") =>
        LET d == last.args[1]
        IN  /\ isMem(op)
            /\ baseType(op) = d.baseType
            /\ baseId(op) = d.baseId
            /\ indexType(op) = d.indexType
            /\ indexId(op) = d.indexId
            /\ offsetLo32(op) = d.offset
            /\ size(op) = d.size
            /\ addrType(op) = {b - kSignatureMemAddrTypeShift :
                                  b \in d.flags \cap kSignatureMemAddrTypeMask}
            /\ isRegHome(op) <=> (kSignatureMemRegHomeShift \in d.flags)

\* C5 witness: every field at its largest value and a negative offset.
C5_Witness ==
    /\ Did("BaseMem(Decomposed)")
    /\ baseType(op) = Bits(kTypeMax)
    /\ indexType(op) = Bits(kTypeMax)
    /\ size(op) = Bits(255)
    /\ baseId(op) = WAllOnes
    /\ offsetLo32(op) = WIntMin
    /\ isRel(op)
    /\ isRegHome(op)

\* The Decomposed of the last operation has no base: type 0 and id 0.
C6_NoBaseCtor ==
    /\ Did("BaseMem(Decomposed)")
    /\ last.args[1].baseType = W0
    /\ last.args[1].baseId = W0

\* C6 as claimed: a memory operand built with no base and a signed 32-bit
\* offset d reports offset() = d sign-extended to 64 bits.
C6_SignExtendedOffset ==
    C6_NoBaseCtor => offset(op) = SignExtend32(last.args[1].offset)

\* C6 amended: such an operand reports offset() = d zero-extended, that is
\* d mod 2^32, which is d sign-extended exactly when d >= 0.
C6_ZeroExtendedOffset ==
    C6_NoBaseCtor =>
        /\ offset(op) = Q(W0, last.args[1].offset)
        /\ (offset(op) = SignExtend32(last.args[1].offset))
              <=> (31 \notin last.args[1].offset)

\* C6 witness: no base, d = -1: offset() is 0x00000000FFFFFFFF.
C6_Witness ==
    /\ C6_NoBaseCtor
    /\ last.args[1].offset = WAllOnes
    /\ offset(op) = Q(W0, WAllOnes)

C8_Setters ==
    {"setSize", "setAddrType", "setAbs", "setRel", "resetAddrType",
     "setRegHome", "clearRegHome", "_setBase", "_setIndex"}
C8_Mask(l) ==
    CASE l.opn = "setSize" -> kSignatureSizeMask
      [] l.opn \in {"setAddrType", "setAbs", "setRel", "resetAddrType"} ->
            kSignatureMemAddrTypeMask
      [] l.opn \in {"setRegHome", "clearRegHome"} -> kSignatureMemRegHomeFlag
      [] l.opn = "_setBase" -> kSignatureMemBaseTypeMask
      [] l.opn = "_setIndex" -> kSignatureMemIndexTypeMask
C8_Value(l) ==
    CASE l.opn \in {"setSize", "setAddrType", "_setBase", "_setIndex"} -> l.args[1]
      [] l.opn \in {"setAbs", "setRegHome"} -> Bits(1)
      [] l.opn = "setRel" -> Bits(2)
      [] l.opn \in {"resetAddrType", "clearRegHome"} -> Bits(0)

\* C8: a signature setter called with a value that fits its field leaves
\* every signature bit outside the field's mask unchanged, and the field
\* reads back as the value written.
C8_FieldIsolation ==
    (last.opn \in C8_Setters
        /\ C8_Value(last) \subseteq 0..(Cardinality(C8_Mask(last)) - 1)) =>
        /\ status = "running"
        /\ op.signature \ C8_Mask(last) = prev.signature \ C8_Mask(last)
        /\ {b - Min(C8_Mask(last)) : b \in op.signature \cap C8_Mask(last)}
              = C8_Value(last)
        /\ last.opn = "setSize" => size(op) = last.args[1]
        /\ last.opn = "setAddrType" => addrType(op) = last.args[1]
        /\ last.opn = "setAbs" => isAbs(op)
        /\ last.opn = "setRel" => isRel(op)
        /\ last.opn = "resetAddrType" => addrType(op) = Bits(kAddrTypeDefault)
        /\ last.opn = "setRegHome" => isRegHome(op)
        /\ last.opn = "clearRegHome" => ~isRegHome(op)
        /\ last.opn = "_setBase" => baseType(op) = last.args[1]
        /\ last.opn = "_setIndex" => indexType(op) = last.args[1]

\* C8 witness: setSize(1) on an operand of size 255 whose other fields are
\* all populated.
C8_Witness ==
    /\ Did("setSize")
    /\ last.args[1] = Bits(1)
    /\ size(prev) = Bits(255)
    /\ baseType(prev) = Bits(kTypeMax)
    /\ indexType(prev) = Bits(kTypeMax)
    /\ isRel(prev) /\ isRegHome(prev)
    /\ size(op) = Bits(1)

\* The kind field as the three low bits of the signature.
C9_KindBits(o) == o.signature \cap (0..2)
\* The five kinds, and the four that are not none, as words.
C9_Kinds == {Bits(k) : k \in {kOpNone, kOpReg, kOpMem, kOpImm, kOpLabel}}
C9_SomeKinds == {Bits(k) : k \in {kOpReg, kOpMem, kOpImm, kOpLabel}}
\* How many of isNone, isReg, isMem, isImm, isLabel hold.
C9_One(b) == IF b THEN 1 ELSE 0
C9_Holding(o) ==
    C9_One(isNone(o)) + C9_One(isReg(o)) + C9_One(isMem(o))
        + C9_One(isImm(o)) + C9_One(isLabel(o))

\* C9 as claimed: kind() is one of the five kinds, each predicate holds
\* exactly when kind() is its kind, and exactly one predicate holds.
C9_ExactlyOneKind ==
    /\ C9_KindBits(op) \in C9_Kinds
    /\ isNone(op) <=> C9_KindBits(op) = Bits(kOpNone)
    /\ isReg(op) <=> C9_KindBits(op) = Bits(kOpReg)
    /\ isMem(op) <=> C9_KindBits(op) = Bits(kOpMem)
    /\ isImm(op) <=> C9_KindBits(op) = Bits(kOpImm)
    /\ isLabel(op) <=> C9_KindBits(op) = Bits(kOpLabel)
    /\ C9_Holding(op) = 1

\* C9 amended: opType() is the 3-bit kind field; isReg, isMem, isImm and
\* isLabel hold exactly when it is register, memory, immediate, label;
\* isNone() holds exactly when the whole signature is zero, which implies
\* kind none; so at most one predicate holds, and exactly one holds iff the
\* kind field is 1..4 or the signature is zero.
C9_KindPredicates ==
    /\ opType(op) = C9_KindBits(op)
    /\ isNone(op) <=> op.signature = W0
    /\ isNone(op) => C9_KindBits(op) = Bits(kOpNone)
    /\ isReg(op) <=> C9_KindBits(op) = Bits(kOpReg)
    /\ isMem(op) <=> C9_KindBits(op) = Bits(kOpMem)
    /\ isImm(op) <=> C9_KindBits(op) = Bits(kOpImm)
    /\ isLabel(op) <=> C9_KindBits(op) = Bits(kOpLabel)
    /\ LET n == C9_Holding(op)
       IN  /\ n <= 1
           /\ n = 1 <=> (op.signature = W0 \/ C9_KindBits(op) \in C9_SomeKinds)

\* C9 witness: the raw constructor made an operand whose kind field is none
\* and whose signature is not zero: none of the five predicates holds.
C9_Witness ==
    /\ Did("Operand(Init)")
    /\ C9_KindBits(op) = Bits(kOpNone)
    /\ op.signature # W0
    /\ C9_Holding(op) = 0

\* C10: the memory kind is the register kind plus one, and isRegOrMem() is
\* true exactly for the kinds register and memory, among all eight values of
\* the kind field.
C10_RegOrMem ==
    /\ kOpMem = kOpReg + 1
    /\ isRegOrMem(op) <=> (C9_KindBits(op) = Bits(kOpReg) \/ C9_KindBits(op) = Bits(kOpMem))

\* C10 witness: a memory operand, for which isRegOrMem() holds.
C10_Witness ==
    /\ Did("BaseMem(Decomposed)")
    /\ C9_KindBits(op) = Bits(kOpMem)
    /\ isRegOrMem(op)

\* C11: isPhysReg() and isVirtReg() never both hold; a register with id < 255
\* is physical and not virtual, one with id in [256, kInvalidId - 1] virtual
\* and not physical, one with id 255 neither; Operand_::isPhysReg() and
\* isVirtReg() are both false for an operand whose kind is not register.
\* BaseReg's own isPhysReg()/isVirtReg() agree on every register.
C11_PhysVirtDisjoint ==
    /\ ~(isPhysReg(op) /\ isVirtReg(op))
    /\ ~(BaseReg_isPhysReg(op) /\ BaseReg_isVirtReg(op))
    /\ ~isReg(op) => (~isPhysReg(op) /\ ~isVirtReg(op))
    /\ isReg(op) =>
          /\ Lt(op.baseId, Bits(255)) => (isPhysReg(op) /\ ~isVirtReg(op))
          /\ (~Lt(op.baseId, Bits(256)) /\ Lt(op.baseId, kInvalidId)) =>
                (isVirtReg(op) /\ ~isPhysReg(op))
          /\ op.baseId = Bits(255) => (~isPhysReg(op) /\ ~isVirtReg(op))
          /\ BaseReg_isPhysReg(op) = isPhysReg(op)
          /\ BaseReg_isVirtReg(op) = isVirtReg(op)

\* C11 witness: a register was given the id 255, the one id that is neither.
C11_Witness ==
    /\ Did("BaseReg::setId")
    /\ isReg(op)
    /\ last.args[1] = Bits(kIdBad)
    /\ isPhysReg(prev) \/ isVirtReg(prev)
    /\ ~isPhysReg(op) /\ ~isVirtReg(op)

\* C12: for every allocator index i in [0, kVirtIdCount - 1],
\* indexToVirtId(i) lies in [kVirtIdMin, kVirtIdMax], isVirtId holds of it and
\* virtIdToIndex takes it back to i; isVirtId(id) is false for every id below
\* 256 and for the invalid-id sentinel.
C12_VirtIdRoundTrip ==
    /\ (last.opn = "indexToVirtId" /\ Lt(last.args[1], kVirtIdCount)) =>
          /\ ~Lt(last.ret, Bits(kVirtIdMin))
          /\ ~Lt(kVirtIdMax, last.ret)
          /\ isVirtId(last.ret)
          /\ virtIdToIndex(last.ret) = last.args[1]
    /\ (last.opn = "isVirtId"
           /\ (Lt(last.args[1], Bits(256)) \/ last.args[1] = kInvalidId)) =>
          last.ret = FALSE
    /\ (last.opn = "virtIdToIndex" /\ isVirtId(last.args[1])) =>
          /\ Lt(last.ret, kVirtIdCount)
          /\ indexToVirtId(last.ret) = last.args[1]

\* C12 witness: the last allocator index, kVirtIdCount - 1 = 0xFFFFFEFE, was
\* converted to the last virtual id, kVirtIdMax = 0xFFFFFFFE.
C12_Witness ==
    /\ last.opn = "indexToVirtId"
    /\ last.args[1] = Sub32(kVirtIdCount, W1)
    /\ last.ret = W(65535, 65534)
    /\ last.ret = kVirtIdMax

\* C13: a RegOnly initialised from the register BaseReg(signature, id) and
\* converted back with toReg<BaseReg>() is a register that isEqual() to the
\* original: same signature, same id, zero payload.
C13_RegOnlyRoundTrip ==
    /\ last.opn = "RegOnly::init" =>
          /\ regOnly.signature = signature(last.args[1])
          /\ regOnly.id = id(last.args[1])
          /\ isEqual(RegOnly_toReg(regOnly), last.args[1])
    /\ last.opn = "RegOnly::toReg" =>
          /\ regOnly = prevRegOnly
          /\ isEqual(op, OperandInit(regOnly.signature, regOnly.id, {}, {}))

\* C13 witness: a RegOnly made from a 32-bit general purpose register with
\* the virtual id 256 was converted back to that register.
C13_Witness ==
    /\ Did("RegOnly::toReg")
    /\ steps = 2
    /\ regOnly.id = Bits(256)
    /\ BaseReg_type(op) = Bits(kTypeGp32)
    /\ id(op) = Bits(256)
    /\ size(op) = Bits(4)

\* Signed a <= b on 64-bit values: unsigned order with the sign bits flipped.
C14_Flip(a) == (a \ {63}) \cup ({63} \ a)
C14_SLe(a, b) == ~Lt(C14_Flip(b), C14_Flip(a))
\* lo <= v <= hi for the payload v of the operand, read as an int64_t.
C14_Within(lo, hi) == C14_SLe(lo, data64(op)) /\ C14_SLe(data64(op), hi)

\* C14: for the payload v of an immediate read as a signed 64-bit value,
\* isInt8() holds iff -128 <= v <= 127, isUInt8() iff 0 <= v <= 255,
\* isInt16() iff -32768 <= v <= 32767, isUInt16() iff 0 <= v <= 65535,
\* isInt32() iff -2^31 <= v <= 2^31 - 1, isUInt32() iff 0 <= v <= 2^32 - 1.
C14_ImmFits ==
    cls = "Imm" =>
        /\ Imm_isInt8(op) <=> C14_Within(Bit64 \ (0..6), 0..6)
        /\ Imm_isUInt8(op) <=> C14_Within({}, 0..7)
        /\ Imm_isInt16(op) <=> C14_Within(Bit64 \ (0..14), 0..14)
        /\ Imm_isUInt16(op) <=> C14_Within({}, 0..15)
        /\ Imm_isInt32(op) <=> C14_Within(Bit64 \ (0..30), 0..30)
        /\ Imm_isUInt32(op) <=> C14_Within({}, 0..31)

\* C14 witness: the immediate -129, which fits int16 and int32 and none of
\* int8, uint8, uint16 and uint32.
C14_Witness ==
    /\ Did("Imm(val)")
    /\ last.args[1] = Bit64 \ {7}
    /\ ~Imm_isInt8(op) /\ ~Imm_isUInt8(op) /\ Imm_isInt16(op)
    /\ ~Imm_isUInt16(op) /\ Imm_isInt32(op) /\ ~Imm_isUInt32(op)

\* The 64-bit value q is the n-bit value val extended: its low n bits are
\* val, and the bits above are copies of val's top bit (signed) or zero.
C15_Extends(q, val, n, isSigned) ==
    /\ q \cap (0..(n - 1)) = val
    /\ \A b \in n..63 : (b \in q) <=> (isSigned /\ (n - 1) \in val)
\* The width of the argument of a set* mutator, and whether it is signed.
C15_Setters == {"setI8", "setU8", "setI16", "setU16", "setI32", "setU32"}
C15_Width(opn) ==
    CASE opn \in {"setI8", "setU8"} -> 8
      [] opn \in {"setI16", "setU16"} -> 16
      [] opn \in {"setI32", "setU32"} -> 32
C15_Signed(opn) == opn \in {"setI8", "setI16", "setI32"}

\* C15: imm(v) of a signed 8/16/32/64-bit v stores v sign-extended to 64
\* bits, of an unsigned v stores it zero-extended; the result has kind
\* immediate, base id 0 and size 0, and i64() returns the stored value.
\* setI8/setI16/setI32 sign-extend and setU8/setU16/setU32 zero-extend their
\* argument in the same way, and write the payload only.
C15_ImmConstruction ==
    /\ last.opn = "imm(val)" =>
          /\ C15_Extends(data64(op), last.args[1], last.args[3], last.args[2])
          /\ Imm_i64(op) = data64(op)
          /\ isImm(op)
          /\ op.signature = Bits(kOpImm)
          /\ id(op) = W0
          /\ size(op) = W0
    /\ last.opn \in C15_Setters =>
          /\ C15_Extends(Imm_i64(op), last.args[1], C15_Width(last.opn),
                         C15_Signed(last.opn))
          /\ op.signature = prev.signature
          /\ op.baseId = prev.baseId

\* C15 witness: imm(int8_t(-128)) holds 0xFFFFFFFFFFFFFF80.
C15_Witness ==
    /\ Did("imm(val)")
    /\ last.args = <<{7}, TRUE, 8>>
    /\ Imm_i64(op) = Bit64 \ (0..6)
    /\ isImm(op)

\* C16: setOffset(x) on an operand with no base stores all 64 bits, so that
\* offset() = x; on an operand with a base it stores the low 32 bits of x,
\* leaves the base id as it was, and offset() is the low 32 bits of x
\* sign-extended.  The signature and the index id are unchanged in both.
C16_SetOffset ==
    last.opn = "setOffset" =>
        /\ status = "running"
        /\ op.signature = prev.signature
        /\ op.data0 = prev.data0
        /\ baseType(prev) = W0 =>
              /\ offset(op) = last.args[1]
              /\ Addr64(op) = last.args[1]
        /\ baseType(prev) # W0 =>
              /\ op.data1 = last.args[1] \cap (0..31)
              /\ op.baseId = prev.baseId
              /\ offset(op) \cap (0..31) = last.args[1] \cap (0..31)
              /\ \A b \in 32..63 : (b \in offset(op)) <=> (31 \in last.args[1])

\* C16 witness: setOffset(0x0000000180000000) on an operand whose base id is
\* 0xFFFFFFFF: the base id stays and offset() is -2^31.
C16_Witness ==
    /\ Did("setOffset")
    /\ baseType(prev) # W0
    /\ prev.baseId = WAllOnes
    /\ last.args[1] = Q(W1, WIntMin)
    /\ op.baseId = WAllOnes
    /\ offset(op) = Bit64 \ (0..30)

\* C17: in every memory operand state hasBase() holds iff base-type # 0,
\* hasBaseLabel() iff base-type = 1, hasBaseReg() iff base-type >= 2, so
\* hasBase() holds iff exactly one of hasBaseReg() and hasBaseLabel() does,
\* and isOffset64Bit() iff hasBase() does not; hasIndex() holds iff
\* index-type # 0 and hasIndexReg() iff index-type >= 2.
C17_BaseSlot ==
    cls = "BaseMem" =>
        LET bt == {b - 3 : b \in op.signature \cap (3..7)}
            it == {b - 8 : b \in op.signature \cap (8..12)}
        IN  /\ bt = baseType(op)
            /\ it = indexType(op)
            /\ hasBase(op) <=> bt # {}
            /\ hasBaseLabel(op) <=> bt = {0}
            /\ hasBaseReg(op) <=> (bt # {} /\ bt # {0})
            /\ hasBase(op) <=> (hasBaseReg(op) # hasBaseLabel(op))
            /\ ~(hasBaseReg(op) /\ hasBaseLabel(op))
            /\ isOffset64Bit(op) <=> ~hasBase(op)
            /\ hasIndex(op) <=> it # {}
            /\ hasIndexReg(op) <=> (it # {} /\ it # {0})

\* C17 witness: _setBase made a label the base of an operand that has an
\* index register.
C17_Witness ==
    /\ Did("_setBase")
    /\ last.args[1] = Bits(kLabelTag)
    /\ hasBase(op) /\ hasBaseLabel(op) /\ ~hasBaseReg(op)
    /\ ~isOffset64Bit(op)
    /\ hasIndex(op) /\ hasIndexReg(op)

C19_LabelResetIdZero ==
    (last.opn = "reset" /\ cls = "Label") =>
        /\ op.signature = Bits(kOpLabel)
        /\ op.data0 = W0 /\ op.data1 = W0
        /\ id(op) = W0

\* C20: BaseReg::setId, RegOnly::setId, BaseMem::setBaseId and
\* BaseMem::setIndexId write the id they are given into their id field and
\* change nothing else: not the signature, not any other word.
C20_SetIdFrame ==
    /\ last.opn \in {"BaseReg::setId", "setBaseId"} =>
          /\ op.baseId = last.args[1]
          /\ op.signature = prev.signature
          /\ op.data0 = prev.data0 /\ op.data1 = prev.data1
    /\ last.opn = "setIndexId" =>
          /\ op.data0 = last.args[1]
          /\ op.signature = prev.signature
          /\ op.baseId = prev.baseId /\ op.data1 = prev.data1
    /\ last.opn = "RegOnly::setId" =>
          /\ regOnly.id = last.args[1]
          /\ regOnly.signature = prevRegOnly.signature
          /\ op = prev
    /\ last.opn \in {"BaseReg::setId", "setBaseId", "setIndexId", "RegOnly::setId"} =>
          status = "running"

\* C20 witness: setIndexId(256) put a virtual id in place of the index id
\* 0xFFFFFFFE of an operand whose signature fields are all populated.
C20_Witness ==
    /\ Did("setIndexId")
    /\ last.args[1] = Bits(256)
    /\ prev.data0 = W(65535, 65534)
    /\ indexId(op) = Bits(256)
    /\ indexType(op) = Bits(kTypeMax)
    /\ baseType(op) = Bits(kTypeMax)
    /\ size(op) = Bits(255)
    /\ isRel(op) /\ isRegHome(op)

\* C21: r.cloneAs<RegT>() and r.cloneAs(other) return a register whose
\* signature is exactly the target's, RegT::kSignature or other.signature(),
\* whose id is r.id() and whose payload is zero, whatever r's own signature
\* is; r itself is unchanged.
C21_CloneAs ==
    last.opn \in {"cloneAs<RegT>", "cloneAs"} =>
        LET S == IF last.opn = "cloneAs" THEN signature(last.args[1]) ELSE last.args[1]
        IN  /\ status = "running"
            /\ signature(last.ret) = S
            /\ id(last.ret) = id(prev)
            /\ last.ret.data0 = W0 /\ last.ret.data1 = W0
            /\ op = prev

\* C21 witness: a 32-bit general purpose register with the invalid id was
\* cloned as a vector register of type 31: the clone has that signature and
\* the same id, with no check of either.
C21_Witness ==
    /\ Did("cloneAs<RegT>")
    /\ BaseReg_type(op) = Bits(kTypeGp32)
    /\ id(op) = kInvalidId
    /\ BaseReg_type(last.ret) = Bits(kTypeMax)
    /\ BaseReg_group(last.ret) = Bits(kGroupVec)
    /\ signature(last.ret) # signature(op)
    /\ id(last.ret) = kInvalidId

\* The register-group field as bits 8..11 of the signature.
C22_GroupBits(o) == {b - 8 : b \in o.signature \cap (8..11)}

C23_SameVersusEqual ==
    last.opn = "isSame" =>
        LET other == last.args[1]
        IN  /\ isEqual(op, other) => last.ret
            /\ (data64(op) = {} /\ data64(other) = {}) =>
                  (last.ret <=> isEqual(op, other))
            /\ (last.ret /\ ~isEqual(op, other)) <=>
                  /\ op.signature = other.signature
                  /\ op.baseId = other.baseId
                  /\ data64(op) # data64(other)

\* C23 witness: a register made by its constructor was compared with one of
\* the same signature and id whose payload holds garbage: the same, not equal.
C23_Witness ==
    /\ Did("isSame")
    /\ cls = "BaseReg"
    /\ data64(op) = {}
    /\ data64(last.args[1]) = Bit64
    /\ last.ret
    /\ ~isEqual(op, last.args[1])

\* The extend mutators, the width each works on, and each applied to o.
C24_SignExtenders == {"signExtend8Bits", "signExtend16Bits", "signExtend32Bits"}
C24_ZeroExtenders == {"zeroExtend8Bits", "zeroExtend16Bits", "zeroExtend32Bits"}
C24_Width(opn) ==
    CASE opn \in {"signExtend8Bits", "zeroExtend8Bits"} -> 8
      [] opn \in {"signExtend16Bits", "zeroExtend16Bits"} -> 16
      [] opn \in {"signExtend32Bits", "zeroExtend32Bits"} -> 32
C24_Apply(opn, o) ==
    CASE opn = "signExtend8Bits" -> Imm_signExtend8Bits(o)
      [] opn = "signExtend16Bits" -> Imm_signExtend16Bits(o)
      [] opn = "signExtend32Bits" -> Imm_signExtend32Bits(o)
      [] opn = "zeroExtend8Bits" -> Imm_zeroExtend8Bits(o)
      [] opn = "zeroExtend16Bits" -> Imm_zeroExtend16Bits(o)
      [] opn = "zeroExtend32Bits" -> Imm_zeroExtend32Bits(o)
\* isInt8/16/32 after a sign extension, isUInt8/16/32 after a zero extension.
C24_Fits(opn, o) ==
    CASE opn = "signExtend8Bits" -> Imm_isInt8(o)
      [] opn = "signExtend16Bits" -> Imm_isInt16(o)
      [] opn = "signExtend32Bits" -> Imm_isInt32(o)
      [] opn = "zeroExtend8Bits" -> Imm_isUInt8(o)
      [] opn = "zeroExtend16Bits" -> Imm_isUInt16(o)
      [] opn = "zeroExtend32Bits" -> Imm_isUInt32(o)

\* C24: signExtend8Bits/16Bits/32Bits leave the payload the sign extension
\* of its low 8/16/32 bits, zeroExtend8Bits/16Bits/32Bits leave it with every
\* bit above the low 8/16/32 clear; each keeps the low 8/16/32 bits, the
\* signature and the base id, calling it again changes nothing, and after it
\* isInt8/isInt16/isInt32, respectively isUInt8/isUInt16/isUInt32, holds.
C24_ImmExtend ==
    last.opn \in (C24_SignExtenders \cup C24_ZeroExtenders) =>
        LET n == C24_Width(last.opn)
            old == data64(prev)
            new == data64(op)
        IN  /\ status = "running"
            /\ new \cap (0..(n - 1)) = old \cap (0..(n - 1))
            /\ \A b \in n..63 :
                  (b \in new) <=> (last.opn \in C24_SignExtenders /\ (n - 1) \in old)
            /\ C24_Apply(last.opn, op) = op
            /\ op.signature = prev.signature
            /\ op.baseId = prev.baseId
            /\ C24_Fits(last.opn, op)

\* C24 witness: signExtend16Bits() turned the immediate 32768 into -32768,
\* which fits int16 as 32768 did not.
C24_Witness ==
    /\ Did("signExtend16Bits")
    /\ data64(prev) = {15}
    /\ ~Imm_isInt16(prev)
    /\ data64(op) = Bit64 \ (0..14)
    /\ Imm_isInt16(op)

\* The carry out of the 32-bit addition a + b, as a word: 1 or 0.
C25_Carry(a, b) == IF 32 \in AddBits(a, b, 0, FALSE, 33) THEN Bits(1) ELSE Bits(0)
\* The addition of the int32_t a to the low word lo carries (a >= 0 and the
\* sum passes 2^32) or borrows (a < 0 and lo < -a).
C25_CarriesOrBorrows(lo, a) ==
    IF 31 \in a THEN C25_Carry(lo, a) = Bits(0) ELSE C25_Carry(lo, a) = Bits(1)
\* High words of the values k that addOffsetLo32's argument is the low word of.
C25_HighWords == {Bits(0), Bits(1), Bit32}
\* What addOffsetLo32 does in either mode: the low word takes the 32-bit sum,
\* nothing else changes, and with a base that is what addOffset(k) does.
C25_Common(k) ==
    /\ status = "running"
    /\ op.data1 = Add32(prev.data1, Low32(k))
    /\ op.baseId = prev.baseId
    /\ op.data0 = prev.data0
    /\ op.signature = prev.signature
    /\ baseType(prev) # Bits(0) => op = addOffset(prev, k)

C26_Mutators ==
    {"setBase", "_setBase", "setIndex", "_setIndex", "resetBase", "resetIndex",
     "setBaseId", "setIndexId", "setSize", "setAddrType", "setAbs", "setRel",
     "resetAddrType", "setRegHome", "clearRegHome", "setOffset", "setOffsetLo32",
     "addOffset", "addOffsetLo32", "resetOffset", "resetOffsetLo32", "reset"}
\* The last call's argument is in range: a type <= 31, a size <= 255, an
\* address type <= 3.
C26_InRange ==
    /\ last.opn \in {"_setBase", "_setIndex"} => last.args[1] \subseteq 0..4
    /\ last.opn = "setSize" => last.args[1] \subseteq 0..7
    /\ last.opn = "setAddrType" => last.args[1] \subseteq 0..1

C27_ResetBaseMode ==
    (last.opn = "resetBase" /\ baseType(prev) # Bits(0)) =>
        /\ status = "running"
        /\ baseType(op) = Bits(0)
        /\ baseId(op) = Bits(0)
        /\ offsetLo32(op) = offsetLo32(prev)
        /\ indexId(op) = indexId(prev)
        /\ op.signature \ kSignatureMemBaseTypeMask
              = prev.signature \ kSignatureMemBaseTypeMask
        /\ isOffset64Bit(op) /\ ~isOffset64Bit(prev)
        /\ offset(op) = Q(Bits(0), offsetLo32(prev))
        /\ IF 31 \in offsetLo32(prev)
           THEN offset(op) = Add64(offset(prev), {32})
           ELSE offset(op) = offset(prev)

\* C27 witness: an operand with a base, base id 0xFFFFFFFF and displacement
\* -1 was given resetBase(): offset() went from -1 to 0x00000000FFFFFFFF.
C27_Witness ==
    /\ Did("resetBase")
    /\ baseType(prev) # Bits(0)
    /\ baseId(prev) = Bit32
    /\ offset(prev) = Bit64
    /\ baseId(op) = Bits(0)
    /\ offset(op) = Q(Bits(0), Bit32)

\* C28: in every state of a memory operand, with a base or not and whatever
\* the base id, hasOffset() holds exactly when offset() is not 0; and
\* resetOffset() leaves hasOffset() false and offset() 0, keeps the id of a
\* base that is present, and changes neither the signature nor the index id.
C28_HasOffsetAgrees ==
    /\ cls = "BaseMem" => (hasOffset(op) <=> offset(op) # {})
    /\ last.opn = "resetOffset" =>
          /\ status = "running"
          /\ ~hasOffset(op)
          /\ offset(op) = {}
          /\ baseType(prev) # Bits(0) => baseId(op) = baseId(prev)
          /\ op.signature = prev.signature
          /\ indexId(op) = indexId(prev)

\* C28 witness: resetOffset() on an operand with no base that held the
\* absolute address 0xFFFFFFFF00000000, whose low word was already 0.
C28_Witness ==
    /\ Did("resetOffset")
    /\ baseType(prev) = Bits(0)
    /\ offsetLo32(prev) = Bits(0)
    /\ baseId(prev) = Bit32
    /\ hasOffset(prev)
    /\ ~hasOffset(op)
    /\ offset(op) = {}

\* -k as an int64_t, modulo 2^64.
C29_Neg(k) == Add64(Bit64 \ k, Bits(1))
\* After addOffset(k): a further addOffset(b) leaves what addOffset(k + b)
\* leaves on the operand as it was, and addOffset(-k) leaves that operand.
C29_Laws ==
    /\ \A b \in Offsets64 :
          addOffset(op, b) = addOffset(prev, Add64(last.args[1], b))
    /\ addOffset(op, C29_Neg(last.args[1])) = prev

\* C29: addOffset(a) followed by addOffset(b) yields the operand that a
\* single addOffset((a + b) mod 2^64) yields, and addOffset(k) followed by
\* addOffset(-k) restores the operand bit for bit, with a base (32-bit mode)
\* and with none (64-bit mode), for every operand and every a, b, k.
C29_AddOffsetAdditive ==
    last.opn = "addOffset" => (status = "running" /\ C29_Laws)

\* The same on the calls that return: the wrapping outcome of an overflowing
\* addition included, the two laws hold.
C29_WhenReturned ==
    (last.opn = "addOffset" /\ status = "running") => C29_Laws

\* C30: for a register operand isVirtReg(), in its Operand_, BaseReg and
\* RegOnly versions, holds for every id greater than 255; it agrees with
\* isVirtId(id) for every id but the sentinel kInvalidId, where isVirtReg()
\* is true and isVirtId() false.  A BaseReg with a nonzero signature and an
\* id other than 255 is isValid() and exactly one of physical and virtual.
C30_VirtAtSentinel ==
    /\ isReg(op) =>
          /\ isVirtReg(op) <=> Lt(Bits(255), id(op))
          /\ BaseReg_isVirtReg(op) <=> Lt(Bits(255), id(op))
          /\ id(op) # kInvalidId => (isVirtReg(op) <=> isVirtId(id(op)))
          /\ id(op) = kInvalidId => (isVirtReg(op) /\ ~isVirtId(id(op)))
          /\ id(op) # Bits(255) =>
                /\ BaseReg_isValid(op)
                /\ BaseReg_isPhysReg(op) # BaseReg_isVirtReg(op)
    /\ regOnly # NoRegOnly =>
          /\ RegOnly_isVirtReg(regOnly) <=> Lt(Bits(255), regOnly.id)
          /\ regOnly.id # kInvalidId =>
                (RegOnly_isVirtReg(regOnly) <=> isVirtId(regOnly.id))
          /\ regOnly.id = kInvalidId =>
                (RegOnly_isVirtReg(regOnly) /\ ~isVirtId(regOnly.id))
          /\ ~(RegOnly_isPhysReg(regOnly) /\ RegOnly_isVirtReg(regOnly))

\* C30 witness: a register whose id was set to the sentinel: it is virtual,
\* valid and not physical, and its id is not a virtual id.
C30_Witness ==
    /\ Did("BaseReg::setId")
    /\ isReg(op)
    /\ last.args[1] = kInvalidId
    /\ isVirtReg(op) /\ BaseReg_isVirtReg(op)
    /\ ~isVirtId(id(op))
    /\ BaseReg_isValid(op) /\ ~BaseReg_isPhysReg(op)

====
